---- MODULE Spec2Model ----
(***************************************************************************)
(* A model of phobia/scraper.py (class WikiScraper).                       *)
(*                                                                         *)
(* A text (a Python str) is a sequence of chunks.  A chunk is "<", ">",    *)
(* the newline character, or a run of ordinary characters (neither "<",    *)
(* ">" nor newline) such as "Perpetrator" or "s".  The ordinary chunks     *)
(* used below are chosen so that no text has two spellings.                *)
(*                                                                         *)
(* Three specifications share the variables:                               *)
(*   SpecClean   applies clean_tags to every text up to MaxLen chunks;     *)
(*   SpecScrape  applies scrape_tables to every page within the bounds;    *)
(*   Spec        is a whole run of WikiScraper.__init__.                   *)
(***************************************************************************)
EXTENDS Integers, Sequences, FiniteSets, TLC

VARIABLES
    pc,             \* position of the run
    raised,         \* name of the exception that ended the run, "" if none
    item,           \* SpecClean: argument of clean_tags, as str(item)
    clean_item,     \* SpecClean: <<>> or <<clean_tags(item)>>
    clean_twice,    \* SpecClean: <<>> or <<clean_tags(clean_tags(item))>>
    wikitables,     \* scrape_tables: the matched tables of the page last parsed
    headings_list,  \* scrape_tables: local headings_list when it returned
    contents_list,  \* scrape_tables: local contents_list when it returned
    df,             \* scrape_tables: <<>> or <<the DataFrame returned>>
    start_year,     \* __init__ argument
    stop_year,      \* __init__ argument
    save_csv,       \* __init__ argument
    year,           \* loop variable of the loops of __init__
    data,           \* local dict data of __init__: str(year) -> DataFrame
    self_data,      \* <<>> or <<self.data>>
    perpetrators,   \* <<>> or <<self.perpetrators>>
    tally_runs,     \* number of calls of get_perpetrators
    fetched,        \* the years requested with urlopen, in order
    dirs,           \* the directories that exist
    made,           \* the directories this run created
    writes          \* the calls of to_csv, in order: [path, frame]

vars == <<pc, raised, item, clean_item, clean_twice, wikitables, headings_list,
          contents_list, df, start_year, stop_year, save_csv, year, data,
          self_data, perpetrators, tally_runs, fetched, dirs, made, writes>>

cleanVars == <<item, clean_item, clean_twice>>
scrapeVars == <<wikitables, headings_list, contents_list, df>>
runVars == <<start_year, stop_year, save_csv, year, data, self_data,
             perpetrators, tally_runs, fetched, dirs, made, writes>>

----------------------------------------------------------------------------
(* Bounds *)

MaxLen == 4         \* chunks in an argument of clean_tags (SpecClean)

LT == "<"
GT == ">"
NL == "\n"

\* The chunks of the texts of SpecClean.
Char == {LT, GT, NL, "x"}

RECURSIVE SeqsUpTo(_, _)
SeqsUpTo(S, n) ==
    IF n = 0 THEN {<<>>}
    ELSE LET shorter == SeqsUpTo(S, n - 1)
         IN  shorter \cup {Append(s, c) : s \in {t \in shorter : Len(t) = n - 1}, c \in S}

----------------------------------------------------------------------------
(* clean_tags *)

\* The end of the match of '<.*?>' that starts at s[1] = "<": the index of the
\* first ">" after it, provided no newline comes before ('.' does not match a
\* newline); 0 when there is no match at s[1].
RECURSIVE TagEnd(_, _)
TagEnd(s, j) ==
    IF j > Len(s) THEN 0
    ELSE IF s[j] = GT THEN j
    ELSE IF s[j] = NL THEN 0
    ELSE TagEnd(s, j + 1)

\* re.sub(tag, '', s) with tag = re.compile('<.*?>'): the leftmost
\* non-overlapping matches are removed, scanning left to right.
RECURSIVE SubTag(_)
SubTag(s) ==
    IF s = <<>> THEN <<>>
    ELSE IF Head(s) = LT /\ TagEnd(s, 2) # 0
         THEN SubTag(SubSeq(s, TagEnd(s, 2) + 1, Len(s)))
         ELSE <<Head(s)>> \o SubTag(Tail(s))

\* re.sub(newline, '', s) with newline = re.compile('\n').
SubNewline(s) == SelectSeq(s, LAMBDA c : c # NL)

clean_tags(s) == SubNewline(SubTag(s))

\* A text has a substring '<...>': a "<" followed later by a ">".
HasTag(s) == \E i, j \in 1..Len(s) : i < j /\ s[i] = LT /\ s[j] = GT

HasNewline(s) == \E i \in 1..Len(s) : s[i] = NL

----------------------------------------------------------------------------
(* scrape_tables *)

\* A matched table is [th |-> str of each cell of findAll("th"),
\*                     td |-> str of each cell of findAll("td")].

\* A slip of number_of_rows: the quotient rounded up.
number_of_rows_ceil(headings, contents) ==
    (Len(contents) + Len(headings) - 1) \div Len(headings)

\* number_of_rows = len(contents) // len(headings); len(headings) > 0 here.
number_of_rows(headings, contents) == Len(contents) \div Len(headings)

\* A slip of content_index: the row number not multiplied by the row width.
content_index_unscaled(row_number, headings, index) == row_number + index

\* content_index = row_number * len(headings) + index (0-based).
content_index(row_number, headings, index) == row_number * Len(headings) + index

\* The loop "for index, heading in enumerate(headings)" from position index on.
\* st = [raised, headings_list, contents_row].
RECURSIVE IndexLoop(_, _, _, _)
IndexLoop(st, wikitable, row_number, index) ==
    LET headings == wikitable.th
        contents == wikitable.td
        ci == content_index(row_number, headings, index)
    IN  IF index >= Len(headings) \/ st.raised # "" THEN st
        ELSE IF ci >= Len(contents)
             THEN [st EXCEPT !.raised = "IndexError"]
             ELSE IndexLoop(
                    [raised |-> "",
                     headings_list |->
                        IF Len(st.headings_list) < Len(headings)
                        THEN Append(st.headings_list, clean_tags(headings[index + 1]))
                        ELSE st.headings_list,
                     contents_row |-> Append(st.contents_row, clean_tags(contents[ci + 1]))],
                    wikitable, row_number, index + 1)

\* The loop "for row_number in range(number_of_rows)" from row_number on.
\* st = [raised, headings_list, contents_list].
RECURSIVE RowLoop(_, _, _)
RowLoop(st, wikitable, row_number) ==
    IF row_number >= number_of_rows(wikitable.th, wikitable.td) \/ st.raised # "" THEN st
    ELSE LET r == IndexLoop([raised |-> "", headings_list |-> st.headings_list,
                             contents_row |-> <<>>], wikitable, row_number, 0)
         IN  IF r.raised # ""
             THEN [st EXCEPT !.raised = r.raised]
             ELSE RowLoop([raised |-> "",
                           headings_list |-> r.headings_list,
                           contents_list |-> Append(st.contents_list, r.contents_row)],
                          wikitable, row_number + 1)

\* The loop "for wikitable in wikitables" from the k-th table on.
RECURSIVE TableLoop(_, _, _)
TableLoop(st, tables, k) ==
    IF k > Len(tables) \/ st.raised # "" THEN st
    ELSE IF Len(tables[k].th) = 0
         THEN [st EXCEPT !.raised = "ZeroDivisionError"]
         ELSE TableLoop(RowLoop(st, tables[k], 0), tables, k + 1)

\* The value pandas has for a cell that a short row does not give.  "None" is
\* no chunk of any text of the model.
None == <<"None">>

Max(S) == CHOOSE m \in S : \A n \in S : n <= m

\* pd.DataFrame(rows, columns=columns) for a list of lists: the rows are padded
\* with None to the longest row, and the number of columns passed must be that
\* width (ValueError otherwise); an empty list gives an empty frame.
DataFrame(rows, columns) ==
    IF rows = <<>>
    THEN [raised |-> "", frame |-> [columns |-> columns, rows |-> <<>>]]
    ELSE LET width == Max({Len(rows[r]) : r \in 1..Len(rows)})
         IN  IF Len(columns) # width
             THEN [raised |-> "ValueError", frame |-> [columns |-> <<>>, rows |-> <<>>]]
             ELSE [raised |-> "",
                   frame |-> [columns |-> columns,
                              rows |-> [r \in 1..Len(rows) |->
                                          [c \in 1..width |->
                                             IF c <= Len(rows[r]) THEN rows[r][c]
                                             ELSE None]]]]

\* A slip of scrape_tables: a page with no matched table is refused.
scrape_tables_refusing_none(tables) ==
    LET st == TableLoop([raised |-> "", headings_list |-> <<>>, contents_list |-> <<>>],
                        tables, 1)
        d  == DataFrame(st.contents_list, st.headings_list)
    IN  IF tables = <<>>
        THEN [raised |-> "IndexError", headings_list |-> <<>>,
              contents_list |-> <<>>, df |-> <<>>]
        ELSE IF st.raised # ""
        THEN [raised |-> st.raised, headings_list |-> st.headings_list,
              contents_list |-> st.contents_list, df |-> <<>>]
        ELSE [raised |-> d.raised, headings_list |-> st.headings_list,
              contents_list |-> st.contents_list,
              df |-> IF d.raised = "" THEN <<d.frame>> ELSE <<>>]

\* scrape_tables, given the tables findAll("table", ["wikitable"]) returns:
\* [raised, headings_list, contents_list, df].
scrape_tables(tables) ==
    LET st == TableLoop([raised |-> "", headings_list |-> <<>>, contents_list |-> <<>>],
                        tables, 1)
        d  == DataFrame(st.contents_list, st.headings_list)
    IN  IF st.raised # ""
        THEN [raised |-> st.raised, headings_list |-> st.headings_list,
              contents_list |-> st.contents_list, df |-> <<>>]
        ELSE [raised |-> d.raised, headings_list |-> st.headings_list,
              contents_list |-> st.contents_list,
              df |-> IF d.raised = "" THEN <<d.frame>> ELSE <<>>]

----------------------------------------------------------------------------
(* The pages of SpecScrape: up to MaxTables tables, the k-th with n header   *)
(* cells and m content cells, every cell of the page with a text of its own. *)

MaxTables == 2      \* matched tables on a page
MaxHeaders == 2     \* th cells of a table
MaxCells == 4       \* td cells of a table

\* str() of the i-th th cell of the k-th table: "<th>k th i\n</th>".
ThCell(k, i) == <<LT, "th", GT, ToString(k), "th", ToString(i), NL, LT, "/th", GT>>

\* str() of the i-th td cell of the k-th table: "<td><b>k td i</b>\n</td>".
TdCell(k, i) == <<LT, "td", GT, LT, "b", GT, ToString(k), "td", ToString(i),
                  LT, "/b", GT, NL, LT, "/td", GT>>

ShapedTable(k, n, m) == [th |-> [i \in 1..n |-> ThCell(k, i)],
                         td |-> [i \in 1..m |-> TdCell(k, i)]]

\* A shape gives the header count and the content count of each table.
Shapes == UNION {[1..t -> (0..MaxHeaders) \X (0..MaxCells)] : t \in 0..MaxTables}

ShapedPage(shape) == [k \in 1..Len(shape) |-> ShapedTable(k, shape[k][1], shape[k][2])]

Pages == {ShapedPage(shape) : shape \in Shapes}

InitScrape ==
    /\ pc = "scrape"
    /\ raised = ""
    /\ item = <<>>
    /\ clean_item = <<>>
    /\ clean_twice = <<>>
    /\ wikitables = <<>>
    /\ headings_list = <<>>
    /\ contents_list = <<>>
    /\ df = <<>>
    /\ start_year = 0
    /\ stop_year = 0
    /\ save_csv = FALSE
    /\ year = 0
    /\ data = <<>>
    /\ self_data = <<>>
    /\ perpetrators = <<>>
    /\ tally_runs = 0
    /\ fetched = <<>>
    /\ dirs = {}
    /\ made = {}
    /\ writes = <<>>

\* One call of scrape_tables on a page p that returns.
ScrapeReturns(p) ==
    LET r == scrape_tables(p)
    IN  /\ r.raised = ""
        /\ wikitables' = p
        /\ headings_list' = r.headings_list
        /\ contents_list' = r.contents_list
        /\ df' = r.df
        /\ raised' = ""

\* One call of scrape_tables on a page p that raises.
ScrapeRaises(p) ==
    LET r == scrape_tables(p)
    IN  /\ r.raised # ""
        /\ wikitables' = p
        /\ headings_list' = r.headings_list
        /\ contents_list' = r.contents_list
        /\ df' = <<>>
        /\ raised' = r.raised

ScrapePage ==
    /\ pc = "scrape"
    /\ \E p \in Pages : ScrapeReturns(p)
    /\ pc' = "scraped"
    /\ UNCHANGED <<cleanVars, runVars>>

ScrapePageError ==
    /\ pc = "scrape"
    /\ \E p \in Pages : ScrapeRaises(p)
    /\ pc' = "error"
    /\ UNCHANGED <<cleanVars, runVars>>

NextScrape == ScrapePage \/ ScrapePageError

SpecScrape == InitScrape /\ [][NextScrape]_vars

----------------------------------------------------------------------------
(* WikiScraper.__init__ *)

MaxYears == 2       \* years in [start_year, stop_year]

StartYear == 1999   \* default of start_year

Digits == <<"0", "1", "2", "3", "4", "5", "6", "7", "8", "9">>

\* str(n) for an int n >= 0: its decimal digits.
RECURSIVE Str(_)
Str(n) == IF n < 10 THEN <<Digits[n + 1]>> ELSE Str(n \div 10) \o <<Digits[(n % 10) + 1]>>

\* A slip of range(start_year, stop_year + 1): the stop year left out.
YearRangeExclusive(start, stop) == [i \in 1..(stop - start) |-> start + i - 1]

\* range(start_year, stop_year + 1), as the sequence of its years.
YearRange(start, stop) == [i \in 1..(stop + 1 - start) |-> start + i - 1]

\* A dict is the sequence of its items <<key, value>> in insertion order.
DictKeys(d) == {d[i][1] : i \in 1..Len(d)}

\* d[k] for a key of d.
DictGet(d, k) == d[CHOOSE i \in 1..Len(d) : d[i][1] = k][2]

\* d[k] = v
DictSet(d, k, v) ==
    IF k \in DictKeys(d)
    THEN [i \in 1..Len(d) |-> IF d[i][1] = k THEN <<k, v>> ELSE d[i]]
    ELSE Append(d, <<k, v>>)

\* get(csv_path) of phobia.storage: the path csv_path resolves to, as the
\* sequence of its components.  It touches no file and no directory.
get(csv_path) == <<"phobia", csv_path>>

\* csv_path / f'{year}.csv' for a key year of the dict.
FilePath(csv_path, key) == Append(csv_path, key \o <<".csv">>)

----------------------------------------------------------------------------
(* get_perpetrators *)

Perpetrator == <<"Perpetrator">>
Perpetrators == <<"Perpetrator", "s">>

\* What a DataFrame gives in place of a value when the column name selects
\* several columns: a list, which is not hashable.
Unhashable == <<"list">>

\* name in frame.columns
HasColumn(frame, name) == \E c \in 1..Len(frame.columns) : frame.columns[c] = name

\* frame[name].values.tolist(): one value for each row, or one list for each row
\* when several columns have the name.
ColumnValues(frame, name) ==
    LET at == {c \in 1..Len(frame.columns) : frame.columns[c] = name}
    IN  [r \in 1..Len(frame.rows) |->
            IF Cardinality(at) = 1 THEN frame.rows[r][CHOOSE c \in at : TRUE]
            ELSE Unhashable]

\* dict(Counter(list)) for a list of hashable values.
Counter(list) ==
    [v \in {list[i] : i \in 1..Len(list)} |->
        Cardinality({i \in 1..Len(list) : list[i] = v})]

\* A slip of the loop body: "if" in place of "elif".
ExtendBoth(list, frame) ==
    (IF HasColumn(frame, Perpetrator) THEN list \o ColumnValues(frame, Perpetrator)
     ELSE list)
    \o (IF HasColumn(frame, Perpetrators) THEN ColumnValues(frame, Perpetrators)
        ELSE <<>>)

\* The body of the loop "for df in self.data.values()": the list extended.
Extend(list, frame) ==
    IF HasColumn(frame, Perpetrator) THEN list \o ColumnValues(frame, Perpetrator)
    ELSE IF HasColumn(frame, Perpetrators) THEN list \o ColumnValues(frame, Perpetrators)
    ELSE list

\* The loop "for df in self.data.values()" from the i-th item on.
RECURSIVE ExtendLoop(_, _, _)
ExtendLoop(list, d, i) ==
    IF i > Len(d) THEN list ELSE ExtendLoop(Extend(list, d[i][2]), d, i + 1)

\* get_perpetrators with self.data = d: [raised, tally].
get_perpetrators(d) ==
    LET list == ExtendLoop(<<>>, d, 1)
    IN  IF \E i \in 1..Len(list) : list[i] = Unhashable
        THEN [raised |-> "TypeError", tally |-> <<>>]
        ELSE [raised |-> "", tally |-> Counter(list)]

----------------------------------------------------------------------------
(* The pages the model's Wikipedia serves, as the tables findAll returns *)

Date == <<"Date">>
ISIS == <<"ISIS">>
Taliban == <<"Taliban">>

\* str() of a th cell with the text t: "<th>t\n</th>".
Th(t) == <<LT, "th", GT>> \o t \o <<NL, LT, "/th", GT>>

\* str() of a td cell with the text t: "<td><a>t</a>\n</td>".
Td(t) == <<LT, "td", GT, LT, "a", GT>> \o t \o <<LT, "/a", GT, NL, LT, "/td", GT>>

RunHeaderRows ==
    {<<>>, <<Th(Date)>>, <<Th(Date), Th(Perpetrator)>>, <<Th(Perpetrators), Th(Date)>>,
     <<Th(Perpetrator), Th(Perpetrators)>>, <<Th(Perpetrator), Th(Perpetrator)>>}

RunContentRows ==
    {<<>>, <<Td(ISIS), Td(Taliban)>>, <<Td(ISIS), Td(ISIS), Td(Taliban), Td(ISIS)>>}

RunTables == {[th |-> h, td |-> c] : h \in RunHeaderRows, c \in RunContentRows}

\* The tables of the pages with two tables.
RunTablesOfPairs ==
    {[th |-> <<Th(Date), Th(Perpetrator)>>, td |-> <<Td(ISIS), Td(Taliban)>>],
     [th |-> <<Th(Date)>>, td |-> <<Td(ISIS), Td(Taliban)>>],
     [th |-> <<Th(Perpetrators)>>, td |-> <<Td(ISIS)>>]}

RunPages ==
    {<<>>} \cup {<<t>> : t \in RunTables}
           \cup {<<t, u>> : t \in RunTablesOfPairs, u \in RunTablesOfPairs}

DefaultCsvPath == "csv_data"

Init ==
    /\ pc = "scrape"
    /\ raised = ""
    /\ item = <<>>
    /\ clean_item = <<>>
    /\ clean_twice = <<>>
    /\ wikitables = <<>>
    /\ headings_list = <<>>
    /\ contents_list = <<>>
    /\ df = <<>>
    /\ start_year = StartYear
    /\ stop_year \in (StartYear - 1)..(StartYear + MaxYears - 1)
    /\ save_csv \in BOOLEAN
    /\ year = start_year
    /\ data = <<>>
    /\ self_data = <<>>
    /\ perpetrators = <<>>
    /\ tally_runs = 0
    /\ fetched = <<>>
    /\ dirs \in {{}, {get(DefaultCsvPath)}}
    /\ made = {}
    /\ writes = <<>>

\* The years the loop of line 53 has still to do.
YearsLeft == year \in {YearRange(start_year, stop_year)[i] :
                          i \in 1..Len(YearRange(start_year, stop_year))}

\* A slip of the loop of line 53: each year's CSV saved as soon as it is scraped.
ScrapeYearSavingAtOnce ==
    /\ pc = "scrape"
    /\ YearsLeft
    /\ \E p \in RunPages : ScrapeReturns(p)
    /\ fetched' = Append(fetched, year)
    /\ data' = DictSet(data, Str(year), df'[1])
    /\ year' = year + 1
    /\ IF save_csv
       THEN /\ dirs' = dirs \cup {get(DefaultCsvPath)}
            /\ made' = made \cup ({get(DefaultCsvPath)} \ dirs)
            /\ writes' = Append(writes, [path |-> FilePath(get(DefaultCsvPath), Str(year)),
                                         frame |-> df'[1]])
       ELSE UNCHANGED <<dirs, made, writes>>
    /\ UNCHANGED <<pc, cleanVars, start_year, stop_year, save_csv, self_data,
                   perpetrators, tally_runs>>

\* Line 54, scrape_tables returns: data[str(year)] = self.scrape_tables(year).
ScrapeYear ==
    /\ pc = "scrape"
    /\ YearsLeft
    /\ \E p \in RunPages : ScrapeReturns(p)
    /\ fetched' = Append(fetched, year)
    /\ data' = DictSet(data, Str(year), df'[1])
    /\ year' = year + 1
    /\ UNCHANGED <<pc, cleanVars, start_year, stop_year, save_csv, self_data,
                   perpetrators, tally_runs, dirs, made, writes>>

\* Line 54, request.urlopen(url) raises: the run ends.
FetchFails ==
    /\ pc = "scrape"
    /\ YearsLeft
    /\ fetched' = Append(fetched, year)
    /\ raised' = "URLError"
    /\ pc' = "error"
    /\ UNCHANGED <<cleanVars, scrapeVars, start_year, stop_year, save_csv, year, data,
                   self_data, perpetrators, tally_runs, dirs, made, writes>>

\* Line 54, scrape_tables raises after the fetch: the run ends.
ScrapeYearFails ==
    /\ pc = "scrape"
    /\ YearsLeft
    /\ \E p \in RunPages : ScrapeRaises(p)
    /\ fetched' = Append(fetched, year)
    /\ pc' = "error"
    /\ UNCHANGED <<cleanVars, start_year, stop_year, save_csv, year, data,
                   self_data, perpetrators, tally_runs, dirs, made, writes>>

\* Lines 56-62 after the loop: self.data = data, then
\* self.perpetrators = self.get_perpetrators(), then csv_path = get(csv_path).
Tally ==
    /\ pc = "scrape"
    /\ ~YearsLeft
    /\ self_data' = <<data>>
    /\ tally_runs' = tally_runs + 1
    /\ LET r == get_perpetrators(data)
       IN  IF r.raised # ""
           THEN /\ raised' = r.raised
                /\ pc' = "error"
                /\ UNCHANGED perpetrators
           ELSE /\ perpetrators' = <<r.tally>>
                /\ pc' = IF save_csv THEN "csv" ELSE "done"
                /\ UNCHANGED raised
    /\ UNCHANGED <<cleanVars, scrapeVars, start_year, stop_year, save_csv, year, data,
                   fetched, dirs, made, writes>>

\* The item the loop of line 63 is at.
CsvItem == self_data[1][Len(writes) + 1]

\* Lines 64-66, one turn of the loop "for year, df in self.data.items()".
WriteCsv ==
    /\ pc = "csv"
    /\ Len(writes) < Len(self_data[1])
    /\ LET csv_path == get(DefaultCsvPath)
       IN  /\ dirs' = dirs \cup {csv_path}
           /\ made' = made \cup ({csv_path} \ dirs)
           /\ writes' = Append(writes, [path |-> FilePath(csv_path, CsvItem[1]),
                                        frame |-> CsvItem[2]])
    /\ UNCHANGED <<pc, raised, cleanVars, scrapeVars, start_year, stop_year, save_csv,
                   year, data, self_data, perpetrators, tally_runs, fetched>>

\* Lines 64-66, mkdir or to_csv raises: the run ends.
WriteCsvFails ==
    /\ pc = "csv"
    /\ Len(writes) < Len(self_data[1])
    /\ \E mkdir_done \in BOOLEAN :
          LET csv_path == get(DefaultCsvPath)
          IN  /\ dirs' = IF mkdir_done THEN dirs \cup {csv_path} ELSE dirs
              /\ made' = IF mkdir_done THEN made \cup ({csv_path} \ dirs) ELSE made
    /\ raised' = "OSError"
    /\ pc' = "error"
    /\ UNCHANGED <<cleanVars, scrapeVars, start_year, stop_year, save_csv, year, data,
                   self_data, perpetrators, tally_runs, fetched, writes>>

\* The loop of line 63 is over: __init__ returns.
Return ==
    /\ pc = "csv"
    /\ Len(writes) = Len(self_data[1])
    /\ pc' = "done"
    /\ UNCHANGED <<raised, cleanVars, scrapeVars, runVars>>

Next ==
    \/ ScrapeYear
    \/ FetchFails
    \/ ScrapeYearFails
    \/ Tally
    \/ WriteCsv
    \/ WriteCsvFails
    \/ Return

Spec == Init /\ [][Next]_vars

----------------------------------------------------------------------------
(* Claims about a run, under Spec *)

Done == pc = "done"

\* The errors a fetch or an extraction ends the run with.
ScrapeErrors == {"URLError", "ZeroDivisionError", "IndexError", "ValueError"}

\* The rows of the ScrapeResult d, each as <<item of d, row number>>.
RowsOfResult(d) ==
    UNION {{<<i, r>> : r \in 1..Len(d[i][2].rows)} : i \in 1..Len(d)}

\* The values of the cells of the ScrapeResult d.
ValuesOfResult(d) ==
    UNION {{d[i][2].rows[r][c] : c \in 1..Len(d[i][2].rows[r])} :
             <<i, r>> \in RowsOfResult(d)}

\* The rows whose value in a column named "Perpetrator" or "Perpetrators" is v.
RowsInEitherColumn(d, v) ==
    {ir \in RowsOfResult(d) :
        LET frame == d[ir[1]][2]
        IN  \E c \in 1..Len(frame.columns) :
               /\ frame.columns[c] \in {Perpetrator, Perpetrators}
               /\ frame.rows[ir[2]][c] = v}

\* The rows whose value is v in the column named "Perpetrator" or, in a table
\* with no such column, in the column named "Perpetrators".
RowsInCountedColumn(d, v) ==
    {ir \in RowsOfResult(d) :
        LET frame == d[ir[1]][2]
            name  == IF \E c \in 1..Len(frame.columns) : frame.columns[c] = Perpetrator
                     THEN Perpetrator ELSE Perpetrators
        IN  \E c \in 1..Len(frame.columns) :
               /\ frame.columns[c] = name
               /\ frame.rows[ir[2]][c] = v}

\* C4 (as claimed): after a successful run the tally maps each string v to
\* the number of rows, over all years, whose value in the year's column named
\* "Perpetrator" or "Perpetrators" is v, and holds no string that never occurs.
C4_TallyOfEitherColumn ==
    Done =>
        \A v \in (ValuesOfResult(self_data[1]) \cup DOMAIN perpetrators[1]) \ {None} :
            IF RowsInEitherColumn(self_data[1], v) = {}
            THEN v \notin DOMAIN perpetrators[1]
            ELSE /\ v \in DOMAIN perpetrators[1]
                 /\ perpetrators[1][v] = Cardinality(RowsInEitherColumn(self_data[1], v))

\* C4 (amended): after a successful run the tally maps each value v to the
\* number of rows, over all years, whose value is v in the year's column named
\* "Perpetrator" or, when the year's table has no such column, in its column
\* named "Perpetrators"; values never found there are absent.
C4_TallyOfCountedColumn ==
    Done =>
        \A v \in ValuesOfResult(self_data[1]) \cup DOMAIN perpetrators[1] :
            IF RowsInCountedColumn(self_data[1], v) = {}
            THEN v \notin DOMAIN perpetrators[1]
            ELSE /\ v \in DOMAIN perpetrators[1]
                 /\ perpetrators[1][v] = Cardinality(RowsInCountedColumn(self_data[1], v))

\* C4 witness: a run ended well with two years, one of them with both
\* columns, and a value counted in both years.
C4_Witness ==
    /\ Done
    /\ Len(self_data[1]) = 2
    /\ \E i \in 1..2 : /\ HasColumn(self_data[1][i][2], Perpetrator)
                       /\ HasColumn(self_data[1][i][2], Perpetrators)
    /\ \E v \in DOMAIN perpetrators[1] :
          /\ perpetrators[1][v] >= 2
          /\ \E a, b \in RowsInCountedColumn(self_data[1], v) : a[1] # b[1]

\* The paths given to to_csv.
PathsWritten == {writes[i].path : i \in 1..Len(writes)}

\* C5: a run with save_csv that ends well has written exactly the files
\* '<year>.csv' of the years start_year..stop_year, each once and with that
\* year's table; a run without save_csv writes no file and makes no directory.
C5_FilesWritten ==
    Done =>
        IF save_csv
        THEN /\ PathsWritten = {Append(get(DefaultCsvPath), Str(y) \o <<".csv">>) :
                                   y \in start_year..stop_year}
             /\ Len(writes) = Cardinality(start_year..stop_year)
             /\ \A i \in 1..Len(writes) : \A y \in start_year..stop_year :
                   writes[i].path = Append(get(DefaultCsvPath), Str(y) \o <<".csv">>)
                       => writes[i].frame = DictGet(self_data[1], Str(y))
        ELSE writes = <<>> /\ made = {}

\* C5 witness: a run with save_csv over 1999..2000 ended well with different
\* tables for the two years.
C5_Witness ==
    /\ Done
    /\ save_csv
    /\ stop_year = start_year + 1
    /\ Len(writes) = 2
    /\ writes[1].frame # writes[2].frame

\* C6: while a CSV file is written or a directory made, every year of
\* start_year..stop_year has been fetched, in ascending order and once each,
\* and the tally has been computed once; a run that a fetch or an extraction
\* ended has written no file and exposes neither ScrapeResult nor tally.
C6_CsvOnlyAfterAllYears ==
    /\ \A i \in 1..Len(fetched) : fetched[i] = start_year + i - 1
    /\ tally_runs <= 1
    /\ (writes # <<>> \/ made # {}) =>
          /\ Len(fetched) = Cardinality(start_year..stop_year)
          /\ Len(data) = Cardinality(start_year..stop_year)
          /\ tally_runs = 1
          /\ perpetrators # <<>>
    /\ raised \in ScrapeErrors =>
          /\ writes = <<>>
          /\ made = {}
          /\ self_data = <<>>
          /\ perpetrators = <<>>

\* C6 witness: with save_csv, the second year's table had no header cell: the
\* run ended with the first year scraped and nothing written.
C6_Witness ==
    /\ pc = "error"
    /\ raised = "ZeroDivisionError"
    /\ save_csv
    /\ Len(data) = 1
    /\ Len(fetched) = 2
    /\ writes = <<>>

\* A page with no matched table has been scraped for the year last fetched.
NoTableMatched == fetched # <<>> /\ wikitables = <<>> /\ raised # "URLError"

EmptyFrame == [columns |-> <<>>, rows |-> <<>>]

\* C7 (as claimed): a page with no matched table ends the run with an error.
C7_NoTableIsAnError ==
    NoTableMatched => pc = "error" /\ raised \in ScrapeErrors

\* C7 (amended): a page with no matched table is no error: scrape_tables
\* returns a table with no column and no row for that year, and the run goes on.
C7_NoTableGivesEmptyTable ==
    NoTableMatched =>
        /\ raised \notin ScrapeErrors
        /\ df = <<EmptyFrame>>
        /\ Str(fetched[Len(fetched)]) \in DictKeys(data)
        /\ DictGet(data, Str(fetched[Len(fetched)])) = EmptyFrame

\* C7 witness: the last year's page had no matched table, and the run ended
\* well with both years' files written.
C7_Witness ==
    /\ NoTableMatched
    /\ Done
    /\ Len(writes) = 2
    /\ writes[2].frame = EmptyFrame

----------------------------------------------------------------------------
(* Claims about scrape_tables, under SpecScrape *)

Scraped == pc = "scraped"

\* Some row of rows has the text t in some field.
InSomeRow(rows, t) ==
    \E r \in 1..Len(rows) : \E h \in 1..Len(rows[r]) : rows[r][h] = t

\* The page had exactly one matched table, with at least one header cell.
OneTable == pc # "scrape" /\ Len(wikitables) = 1 /\ Len(wikitables[1].th) >= 1

\* C1: a page with exactly one matched table that has N >= 1 header cells and
\* M >= 0 content cells gives, without an error, exactly M // N rows of
\* exactly N fields each, and the last M % N content cells are in no row.
C1_SingleTableRows ==
    OneTable =>
        LET N == Len(wikitables[1].th)
            M == Len(wikitables[1].td)
        IN  /\ Scraped
            /\ raised = ""
            /\ Len(contents_list) = M \div N
            /\ \A r \in 1..Len(contents_list) : Len(contents_list[r]) = N
            /\ Len(df[1].rows) = M \div N
            /\ \A r \in 1..Len(df[1].rows) : Len(df[1].rows[r]) = N
            /\ \A i \in (M - (M % N) + 1)..M :
                 /\ ~InSomeRow(contents_list, clean_tags(wikitables[1].td[i]))
                 /\ ~InSomeRow(df[1].rows, clean_tags(wikitables[1].td[i]))

\* C1 witness: one table of 2 header cells and 3 content cells was scraped:
\* one row, one cell discarded.
C1_Witness ==
    /\ OneTable
    /\ Scraped
    /\ Len(wikitables[1].th) = 2
    /\ Len(wikitables[1].td) = 3
    /\ Len(contents_list) = 1

\* C8 (as claimed): every row collected for a page whose tables all have at
\* least one header cell has as many fields as there are column names.
C8_RowLengthIsColumnCount ==
    (Scraped /\ \A k \in 1..Len(wikitables) : Len(wikitables[k].th) >= 1) =>
        \A r \in 1..Len(contents_list) : Len(contents_list[r]) = Len(headings_list)

\* The cleaned header cells of a table.
CleanHeaders(wikitable) == [i \in 1..Len(wikitable.th) |-> clean_tags(wikitable.th[i])]

\* C9 (as claimed): on a page with several matched tables the column list is
\* exactly the cleaned header cells of the first table.
C9_HeadersOfFirstTable ==
    (Scraped /\ Len(wikitables) >= 2) => headings_list = CleanHeaders(wikitables[1])

\* The rows of one table by position: field h of row r is clean_tags of the
\* content cell at 0-based index r*N + h.
RowsByPosition(wikitable) ==
    LET N == Len(wikitable.th)
        M == Len(wikitable.td)
    IN  [r \in 1..(M \div N) |->
            [h \in 1..N |-> clean_tags(wikitable.td[(r - 1) * N + (h - 1) + 1])]]

\* The rows of the tables k.. in document order.
RECURSIVE RowsOfTablesFrom(_, _)
RowsOfTablesFrom(tables, k) ==
    IF k > Len(tables) THEN <<>>
    ELSE RowsByPosition(tables[k]) \o RowsOfTablesFrom(tables, k + 1)

\* C10: the rows of a page are the rows of its first table by position, in
\* order, then those of the second table, and so on: none dropped, reordered
\* or deduplicated.
C10_RowMajorConcatenation ==
    Scraped => contents_list = RowsOfTablesFrom(wikitables, 1)

\* C10 witness: two tables were scraped, the first with two rows of two fields.
C10_Witness ==
    /\ Scraped
    /\ Len(wikitables) = 2
    /\ Len(wikitables[1].th) = 2
    /\ Len(wikitables[1].td) = 4
    /\ Len(wikitables[2].td) >= 1
    /\ Len(contents_list) >= 3

----------------------------------------------------------------------------
(* SpecClean *)

InitClean ==
    /\ pc = "clean"
    /\ raised = ""
    /\ item \in SeqsUpTo(Char, MaxLen)
    /\ clean_item = <<>>
    /\ clean_twice = <<>>
    /\ wikitables = <<>>
    /\ headings_list = <<>>
    /\ contents_list = <<>>
    /\ df = <<>>
    /\ start_year = 0
    /\ stop_year = 0
    /\ save_csv = FALSE
    /\ year = 0
    /\ data = <<>>
    /\ self_data = <<>>
    /\ perpetrators = <<>>
    /\ tally_runs = 0
    /\ fetched = <<>>
    /\ dirs = {}
    /\ made = {}
    /\ writes = <<>>

\* clean_item = clean_tags(item)
Clean ==
    /\ pc = "clean"
    /\ clean_item' = <<clean_tags(item)>>
    /\ pc' = "cleaned"
    /\ UNCHANGED <<raised, item, clean_twice, scrapeVars, runVars>>

\* clean_tags applied to its own result
CleanAgain ==
    /\ pc = "cleaned"
    /\ clean_twice' = <<clean_tags(clean_item[1])>>
    /\ pc' = "cleaned twice"
    /\ UNCHANGED <<raised, item, clean_item, scrapeVars, runVars>>

NextClean == Clean \/ CleanAgain

SpecClean == InitClean /\ [][NextClean]_vars

----------------------------------------------------------------------------
\* C2: the result of clean_tags has no newline and no substring '<...>'.
C2_NoTagNoNewline ==
    clean_item # <<>> => ~HasNewline(clean_item[1]) /\ ~HasTag(clean_item[1])

\* C3: clean_tags is idempotent: clean_tags(clean_tags(s)) = clean_tags(s).
C3_Idempotent ==
    clean_twice # <<>> => clean_twice[1] = clean_item[1]

====
